---------------------------- MODULE Spec2Model ----------------------------
(***************************************************************************)
(* A model of ganttToExcel (src/src/index.ts): the conversion of sheets of  *)
(* Gantt tasks into a workbook with a day grid, a month banner, task bars   *)
(* and title rows, followed by one awaited serialization.                   *)
(*                                                                          *)
(* Dates.  A Date is an instant, in whole hours since the UTC epoch.  The  *)
(* caller's strings are local ("2024-01-30", "2024-01-30T10:00"), which     *)
(* moment reads in the local zone; toISOString() writes the instant.        *)
(* moment's accessors and formats see an instant in the local zone, a fixed *)
(* number of hours from UTC (no daylight-saving changes).                   *)
(*                                                                          *)
(* Cells.  A worksheet is its rows, a row its cells; a cell has a value, a  *)
(* border and a fill.  Alignment, fonts and column widths are left out.     *)
(*                                                                          *)
(* Text.  Sheet names are sequences of one-character strings, so that the   *)
(* regular-expression filter, substring(0, 25) and the template-literal     *)
(* suffix are computed.  Formatted dates are records of their fields.       *)
(***************************************************************************)
EXTENDS Integers, Sequences, FiniteSets, TLC

(***************************************************************************)
(* Bounds of the model                                                      *)
(***************************************************************************)
\* Most sheets in one call (the naming family of inputs).
MaxSheets == 3
\* Most tasks in one sheet (the layout family of inputs).
MaxTasks == 2
\* Task dates lie at most this many days after the anchor day.
MaxSpan == 1
\* Largest leftPadding / rightPadding supplied.
MaxPadding == 1

(***************************************************************************)
(* Program constants                                                        *)
(***************************************************************************)
DefaultMinDaysForMonth == 5
MaxSheetNameLen == 25

(***************************************************************************)
(* The calendar (moment's accessors)                                        *)
(***************************************************************************)
\* Year, month (1..12) and day of month of a local day number, the days
\* since 1970-01-01 (proleptic Gregorian).
Civil(d) ==
    LET z   == d + 719468
        era == z \div 146097
        doe == z - era * 146097
        yoe == (doe - (doe \div 1460) + (doe \div 36524) - (doe \div 146096)) \div 365
        doy == doe - (365 * yoe + (yoe \div 4) - (yoe \div 100))
        mp  == (5 * doy + 2) \div 153
        dd  == doy - ((153 * mp + 2) \div 5) + 1
        mm  == IF mp < 10 THEN mp + 3 ELSE mp - 9
        yy  == yoe + era * 400 + (IF mm <= 2 THEN 1 ELSE 0)
    IN  [year |-> yy, month |-> mm, day |-> dd]

IsLeapYear(y) == (y % 4 = 0 /\ y % 100 # 0) \/ y % 400 = 0

\* new Date(0)
Epoch == 0

\* The local day number of instant t in a zone off hours ahead of UTC.
LocalDay(t, off) == (t + off) \div 24

\* moment(t).daysInMonth()
DaysInMonth(t, off) ==
    LET c == Civil(LocalDay(t, off))
    IN  IF c.month = 2 THEN (IF IsLeapYear(c.year) THEN 29 ELSE 28)
        ELSE IF c.month \in {4, 6, 9, 11} THEN 30 ELSE 31

\* moment(t).date()
DateOf(t, off) == Civil(LocalDay(t, off)).day

\* moment(t).month(): 0-based
MonthOf(t, off) == Civil(LocalDay(t, off)).month - 1

\* moment(t).year()
YearOf(t, off) == Civil(LocalDay(t, off)).year

\* moment(t).add(n, "days"), and for negative n moment(t).subtract(-n, "days")
AddDays(t, n) == t + 24 * n

\* moment(a).diff(moment(b), "days"): whole days, truncated towards zero
DiffDays(a, b) ==
    IF a >= b THEN (a - b) \div 24 ELSE 0 - ((b - a) \div 24)

(***************************************************************************)
(* Date strings                                                             *)
(***************************************************************************)
\* The caller's string for hour h of local day d: "YYYY-MM-DD" for h = 0,
\* "YYYY-MM-DDTHH:00" otherwise.
LocalString(d, h) == [kind |-> "local", day |-> d, hour |-> h]

\* Date.prototype.toISOString(): the instant, written in UTC with "Z".
ToISOString(t) == [kind |-> "iso", utcHours |-> t]

\* moment(str).toDate(): a string without zone is read in the local zone,
\* an ISO string with "Z" is the instant it names.
MomentToDate(str, off) ==
    IF str.kind = "local" THEN str.day * 24 + str.hour - off ELSE str.utcHours

\* moment(t).format("YYYY-MM-DD")
FormatYMD(t, off) ==
    [t |-> "ymd", year |-> YearOf(t, off), month |-> MonthOf(t, off) + 1,
     day |-> DateOf(t, off)]

\* moment(t).format("D")
FormatD(t, off) == [t |-> "day", day |-> DateOf(t, off)]

\* moment(t).format("MMM YYYY")
FormatMMMYYYY(t, off) == [t |-> "month", month |-> MonthOf(t, off), year |-> YearOf(t, off)]

\* A text cell value.
Text(s) == [t |-> "text", s |-> s]

\* The order of two "YYYY-MM-DD" strings (lexicographic = chronological).
YMDLeq(a, b) ==
    \/ a.year < b.year
    \/ a.year = b.year /\ a.month < b.month
    \/ a.year = b.year /\ a.month = b.month /\ a.day <= b.day

(***************************************************************************)
(* Options: a function from the option names supplied to their values       *)
(***************************************************************************)
Supplied(options, key) == key \in DOMAIN options

\* options?.leftPadding || 0
LeftPadding(options) ==
    IF Supplied(options, "leftPadding") /\ options["leftPadding"] # 0
    THEN options["leftPadding"] ELSE 0

\* options?.rightPadding || 0
RightPadding(options) ==
    IF Supplied(options, "rightPadding") /\ options["rightPadding"] # 0
    THEN options["rightPadding"] ELSE 0

\* options?.minDaysForMonth || 5: a supplied 0 is falsy and gives 5 too
MinDaysForMonth(options) ==
    IF Supplied(options, "minDaysForMonth") /\ options["minDaysForMonth"] # 0
    THEN options["minDaysForMonth"] ELSE DefaultMinDaysForMonth

\* options?.borderStyle || "thick"
BorderStyle(options) ==
    IF Supplied(options, "borderStyle") /\ options["borderStyle"] # ""
    THEN options["borderStyle"] ELSE "thick"

(***************************************************************************)
(* Date-window resolution (the reduce, the padding, the widening)           *)
(***************************************************************************)
\* A null entry of a data array: reading row.start of it throws a TypeError.
NullTask == [null |-> TRUE]

IsNull(row) == "null" \in DOMAIN row

\* The task record after the reducer's body ran on it: when start > end the
\* two Dates are swapped and written back as ISO strings.
NormalizeRowNoWriteBack(row, off) == row

NormalizeRow(row, off) ==
    LET start == MomentToDate(row.start, off)
        end   == MomentToDate(row.end, off)
    IN  IF start > end
        THEN [row EXCEPT !.start = ToISOString(end),
                         !.end   = ToISOString(start)]
        ELSE row

\* The reducer's return value for accumulator acc and task row.
ReduceStepMinFlipped(acc, row, off) ==
    LET s0    == MomentToDate(row.start, off)
        e0    == MomentToDate(row.end, off)
        start == IF s0 > e0 THEN e0 ELSE s0
        end   == IF s0 > e0 THEN s0 ELSE e0
    IN  [min |-> IF start > acc.min THEN start ELSE acc.min,
         max |-> IF end > acc.max THEN end ELSE acc.max]

ReduceStep(acc, row, off) ==
    LET s0    == MomentToDate(row.start, off)
        e0    == MomentToDate(row.end, off)
        start == IF s0 > e0 THEN e0 ELSE s0
        end   == IF s0 > e0 THEN s0 ELSE e0
    IN  [min |-> IF start < acc.min THEN start ELSE acc.min,
         max |-> IF end > acc.max THEN end ELSE acc.max]

\* The initial value of the reduce: the first task's dates as supplied.
ReduceSeed(data, off) ==
    [min |-> MomentToDate(data[1].start, off),
     max |-> MomentToDate(data[1].end, off)]

RECURSIVE ReduceFrom(_, _, _, _)
ReduceFrom(data, i, acc, off) ==
    IF i > Len(data) THEN acc
    ELSE ReduceFrom(data, i + 1, ReduceStep(acc, data[i], off), off)

\* data.reduce(...): the earliest start and the latest end (no null entry).
Limits(data, off) == ReduceFrom(data, 1, ReduceSeed(data, off), off)

\* The index of the first null entry of data, or Len(data) + 1.
FirstNull(data) ==
    IF \E i \in 1..Len(data) : IsNull(data[i])
    THEN CHOOSE i \in 1..Len(data) :
             IsNull(data[i]) /\ \A j \in 1..(i - 1) : ~IsNull(data[j])
    ELSE Len(data) + 1

\* Whether the callback throws on this data array.
Throws(data) == FirstNull(data) <= Len(data)

\* The caller's data array once the reduce ran or threw: the seed reads
\* data[0] first, then the rows are visited in order, each normalized in
\* place, up to the first null entry.
DataAfterReduce(data, off) ==
    IF IsNull(data[1]) THEN data
    ELSE [i \in 1..Len(data) |->
            IF i < FirstNull(data) THEN NormalizeRow(data[i], off) ELSE data[i]]

\* limits.min = moment(limits.min).subtract(leftPadding, "days"), and
\* limits.max = moment(limits.max).add(rightPadding, "days")
PadLimits(limits, leftPadding, rightPadding) ==
    [min |-> AddDays(limits.min, 0 - leftPadding),
     max |-> AddDays(limits.max, rightPadding)]

\* The start widened when fewer than minDays days are left in its month.
WidenLeftNever(limits, minDays, off) == limits

WidenLeft(limits, minDays, off) ==
    LET noOfDaysInLeftSide == DaysInMonth(limits.min, off) - DateOf(limits.min, off)
    IN  IF noOfDaysInLeftSide < minDays
        THEN [limits EXCEPT !.min = AddDays(limits.min, 0 - (minDays - noOfDaysInLeftSide))]
        ELSE limits

\* The end widened when its day of month is less than minDays.
WidenRight(limits, minDays, off) ==
    LET noOfDaysInRightSide == DateOf(limits.max, off)
    IN  IF noOfDaysInRightSide < minDays
        THEN [limits EXCEPT !.max = AddDays(limits.max, minDays - noOfDaysInRightSide)]
        ELSE limits

\* The window of a sheet for given padding and minimum days per edge month.
AdjustLimits(limits, leftPadding, rightPadding, minDays, off) ==
    WidenRight(WidenLeft(PadLimits(limits, leftPadding, rightPadding), minDays, off),
               minDays, off)

\* The window the code computes for a data array under the caller's options.
Window(data, options, off) ==
    AdjustLimits(Limits(data, off), LeftPadding(options), RightPadding(options),
                 MinDaysForMonth(options), off)

\* moment(limits.max).diff(moment(limits.min), "days") + 1
NoOfDays(limits) == DiffDays(limits.max, limits.min) + 1

(***************************************************************************)
(* Sheet names                                                              *)
(***************************************************************************)
Letters ==
    {"a","b","c","d","e","f","g","h","i","j","k","l","m",
     "n","o","p","q","r","s","t","u","v","w","x","y","z",
     "A","B","C","D","E","F","G","H","I","J","K","L","M",
     "N","O","P","Q","R","S","T","U","V","W","X","Y","Z"}

Digits == <<"0","1","2","3","4","5","6","7","8","9">>

DigitChars == {Digits[k] : k \in 1..10}

\* The characters /[^a-zA-Z0-9\s_]/ does not match.
IsAllowedChar(c) == c \in Letters \cup DigitChars \cup {" ", "_"}

\* `${i}`: the decimal digits of i >= 0
RECURSIVE Decimal(_)
Decimal(i) ==
    IF i < 10 THEN <<Digits[i + 1]>>
    ELSE Decimal(i \div 10) \o <<Digits[(i % 10) + 1]>>

\* (inSheet.sheetName || "Sheet").replace(/[^a-zA-Z0-9\s_]/g, "").substring(0, 25)
SanitizeName(sheetName) ==
    LET given    == IF sheetName = <<>> THEN <<"S","h","e","e","t">> ELSE sheetName
        stripped == SelectSeq(given, IsAllowedChar)
    IN  SubSeq(stripped, 1, IF Len(stripped) < MaxSheetNameLen
                            THEN Len(stripped) ELSE MaxSheetNameLen)

\* workbook.getWorksheet(name): whether the workbook holds a sheet so named
HasWorksheet(wb, name) == \E k \in 1..Len(wb) : wb[k].name = name

\* The while loop: the suffix is appended to the name built so far.
RECURSIVE UniqueFrom(_, _, _)
UniqueFrom(wb, sheetName, i) ==
    IF HasWorksheet(wb, sheetName)
    THEN UniqueFrom(wb, sheetName \o <<"_">> \o Decimal(i), i + 1)
    ELSE sheetName

\* The name the new worksheet is added under.
UniqueSheetName(wb, sheetName) == UniqueFrom(wb, SanitizeName(sheetName), 1)

(***************************************************************************)
(* Worksheets: a sequence of rows, each a tagged sequence of cells          *)
(***************************************************************************)
NoBorder == [top |-> "", left |-> "", bottom |-> "", right |-> ""]

ThinBorder == [top |-> "thin", left |-> "thin", bottom |-> "thin", right |-> "thin"]

EmptyValue == [t |-> "empty"]

EmptyCell == [value |-> EmptyValue, border |-> NoBorder, fill |-> ""]

\* A row of n cells whose first cells hold the given values.
NewRow(kind, values, n) ==
    [kind  |-> kind,
     cells |-> [c \in 1..n |->
                 IF c <= Len(values) THEN [EmptyCell EXCEPT !.value = values[c]]
                 ELSE EmptyCell]]

\* sheet.insertRow(pos, values): the rows from pos on move down by one.
InsertRow(rows, pos, row) ==
    SubSeq(rows, 1, pos - 1) \o <<row>> \o SubSeq(rows, pos, Len(rows))

\* sheet.getCell(r, c).border = border: the whole border object is replaced.
SetBorder(rows, r, c, border) ==
    IF r \in 1..Len(rows) /\ c \in 1..Len(rows[r].cells)
    THEN [rows EXCEPT ![r].cells[c].border = border]
    ELSE rows

\* sheet.columns = [...], sheet.addRows(dataToAdd), and thin borders on the
\* header row and the task rows.
GridRows(data, limits, off) ==
    LET noOfDays == NoOfDays(limits)
        n        == noOfDays + 3
        header   == NewRow("header",
                       <<Text("Task"), Text("Start"), Text("End")>>
                       \o [i \in 1..noOfDays |-> FormatD(AddDays(limits.min, i - 1), off)], n)
        taskRow(row) ==
                    NewRow("task",
                       <<Text(row.task),
                         FormatYMD(MomentToDate(row.start, off), off),
                         FormatYMD(MomentToDate(row.end, off), off)>>, n)
        rows     == <<header>> \o [i \in 1..Len(data) |-> taskRow(data[i])]
    IN  [r \in 1..Len(rows) |->
            [rows[r] EXCEPT !.cells =
                [c \in 1..n |-> [rows[r].cells[c] EXCEPT !.border = ThinBorder]]]]

\* The scan's cursor before the first column: the local month and year of
\* moment(new Date(0)).
BannerCursor(off) == [month |-> MonthOf(Epoch, off), year |-> YearOf(Epoch, off)]

\* The for loop over the day columns i (0-based) with the rolling cursor:
\* the banner row's cells with the month labels written.
RECURSIVE BannerScan(_, _, _, _, _, _)
BannerScan(cells, limits, noOfDays, i, previous, off) ==
    IF i >= noOfDays THEN cells
    ELSE LET currentDate == AddDays(limits.min, i)
         IN  IF MonthOf(currentDate, off) # previous.month
                \/ YearOf(currentDate, off) # previous.year
             THEN BannerScan(
                     [cells EXCEPT ![i + 4].value = FormatMMMYYYY(currentDate, off)],
                     limits, noOfDays, i + 1,
                     [month |-> MonthOf(currentDate, off),
                      year  |-> YearOf(currentDate, off)], off)
             ELSE BannerScan(cells, limits, noOfDays, i + 1, previous, off)

\* The banner row: inserted at the top with three empty texts, the month
\* labels, and thin borders on its day cells.
BannerRow(limits, off) ==
    LET noOfDays == NoOfDays(limits)
        n        == noOfDays + 3
        blank    == NewRow("banner", <<Text(""), Text(""), Text("")>>, n)
        labelled == BannerScan(blank.cells, limits, noOfDays, 0, BannerCursor(off), off)
    IN  [blank EXCEPT !.cells =
            [c \in 1..n |-> IF c >= 4 THEN [labelled[c] EXCEPT !.border = ThinBorder]
                            ELSE labelled[c]]]

\* row.color?.argb || options?.defaultColor || "FF0000"
TaskColor(row, options) ==
    IF "color" \in DOMAIN row /\ row.color # "" THEN row.color
    ELSE IF Supplied(options, "defaultColor") /\ options["defaultColor"] # ""
         THEN options["defaultColor"] ELSE "FF0000"

\* The inner loop over j for one task: fill, and a top and bottom border.
FillSpan(rows, r, startDiff, endDiff, color, style) ==
    IF r \notin 1..Len(rows) THEN rows
    ELSE [rows EXCEPT ![r].cells =
            [c \in 1..Len(rows[r].cells) |->
                IF startDiff <= c - 4 /\ c - 4 <= endDiff
                THEN [rows[r].cells[c] EXCEPT
                        !.fill = color,
                        !.border = [NoBorder EXCEPT !.top = style, !.bottom = style]]
                ELSE rows[r].cells[c]]]

\* The two assignments after the inner loop: the border of the first cell,
\* then the border of the last cell.
EdgeBorders(rows, r, startDiff, endDiff, style) ==
    LET first == SetBorder(rows, r, startDiff + 4,
                    [NoBorder EXCEPT !.top = style, !.left = style, !.bottom = style])
    IN  SetBorder(first, r, endDiff + 4,
                    [NoBorder EXCEPT !.top = style, !.bottom = style, !.right = style])

\* startDiff of a task: moment(start).diff(moment(limits.min), "days")
StartDiff(row, limits, off) == DiffDays(MomentToDate(row.start, off), limits.min)

\* endDiff of a task: moment(end).diff(moment(limits.min), "days")
EndDiff(row, limits, off) == DiffDays(MomentToDate(row.end, off), limits.min)

\* The loop over the tasks from task i (1-based) on; task i is on row i + 2.
RECURSIVE BarsFrom(_, _, _, _, _, _)
BarsFrom(rows, data, i, limits, options, off) ==
    IF i > Len(data) THEN rows
    ELSE LET startDiff == StartDiff(data[i], limits, off)
             endDiff   == EndDiff(data[i], limits, off)
             style     == BorderStyle(options)
             filled    == FillSpan(rows, i + 2, startDiff, endDiff,
                                   TaskColor(data[i], options), style)
         IN  BarsFrom(EdgeBorders(filled, i + 2, startDiff, endDiff, style),
                      data, i + 1, limits, options, off)

\* The rows once the title, subtitle and separator rows are inserted.
TitleRows(rows, title, subTitle) ==
    LET n       == Len(rows[1].cells)
        spaced  == IF title # "" \/ subTitle # ""
                   THEN InsertRow(rows, 1, NewRow("blank", <<Text("")>>, n))
                   ELSE rows
        titled  == IF title # ""
                   THEN InsertRow(spaced, 1, NewRow("title", <<Text(title)>>, n))
                   ELSE spaced
    IN  IF subTitle # ""
        THEN InsertRow(titled, 2, NewRow("subTitle", <<Text(subTitle)>>, n))
        ELSE titled

\* The rows of the worksheet the callback builds, in the order it builds them.
SheetRows(inSheet, data, limits, options, off) ==
    LET grid     == GridRows(data, limits, off)
        bannered == InsertRow(grid, 1, BannerRow(limits, off))
        barred   == BarsFrom(bannered, data, 1, limits, options, off)
    IN  TitleRows(barred, inSheet.title, inSheet.subTitle)

\* The worksheet added for input sheet number source, with the callback's
\* window and day count kept beside it.
NewWorksheet(wb, inSheet, source, options, off) ==
    LET limits == Window(inSheet.data, options, off)
        data   == DataAfterReduce(inSheet.data, off)
    IN  [name     |-> UniqueSheetName(wb, inSheet.sheetName),
         source   |-> source,
         limits   |-> limits,
         noOfDays |-> NoOfDays(limits),
         rows     |-> SheetRows(inSheet, data, limits, options, off)]

(***************************************************************************)
(* The inputs the model draws                                               *)
(***************************************************************************)
\* Local day numbers the task dates are anchored at: 1969-12-31 (the day
\* before the epoch), 2024-01-31 and 2024-02-29.
AnchorDays == {0 - 1, 19753, 19782}

\* minDaysForMonth values a caller supplies.
MinDaysChoices == {0, 3, 31}

\* Offsets of the local zone from UTC, in hours.
UtcOffsets == {0 - 5, 2}

\* Start and end hours of day of the tasks of a sheet: date-only strings, or
\* a start at 10:00 and an end at 08:00.
TimesOfDay == { <<0, 0>>, <<10, 8>> }

\* The date-only string of local day d.
Day(d) == LocalString(d, 0)

Task(name, start, end, color) ==
    [task |-> name, start |-> start, end |-> end, color |-> color]

\* Sheet names: two that sanitize to the same name, one that equals a
\* suffixed name, and one of 26 characters.
SheetNameChoices ==
    { <<"G","a","n","t","t">>,
      <<"G","a","n","t","t","!">>,
      <<"G","a","n","t","t","_","1">>,
      <<"a","b","c","d","e","f","g","h","i","j","k","l","m",
        "n","o","p","q","r","s","t","u","v","w","x","y","z">> }

Sheet(name, title, subTitle, data) ==
    [sheetName |-> name, title |-> title, subTitle |-> subTitle, data |-> data]

\* Sequences of at most n elements of S.
SeqsUpTo(S, n) == UNION {[1..k -> S] : k \in 0..n}

\* Calls with several sheets: names that collide, empty data arrays, a data
\* array holding null.
NamingInputs ==
    LET datas  == { <<>>, <<NullTask>>, <<Task("T1", Day(19723), Day(19727), "")>> }
        sheets == { Sheet(nm, "", "", d) : nm \in SheetNameChoices, d \in datas }
    IN  { [sheets |-> ss, options |-> <<>>, off |-> 2] :
            ss \in SeqsUpTo(sheets, MaxSheets) }

\* Calls with one sheet: task dates around an anchor day, in either order,
\* as date-only strings or with hours; no options, padding alone,
\* minDaysForMonth alone, or both.
LayoutInputs ==
    LET tasks(a, h) == { Task("T", LocalString(a + s, h[1]), LocalString(a + e, h[2]), "") :
                           s \in 0..MaxSpan, e \in 0..MaxSpan }
        datas     == UNION { SeqsUpTo(tasks(a, h), MaxTasks) \ {<<>>} :
                               a \in AnchorDays, h \in TimesOfDay }
        pads      == { [leftPadding |-> l, rightPadding |-> r] :
                         l \in 0..MaxPadding, r \in 0..MaxPadding }
        mins      == { [minDaysForMonth |-> m] : m \in MinDaysChoices }
        both      == [leftPadding |-> MaxPadding, rightPadding |-> MaxPadding,
                      minDaysForMonth |-> 3]
        opts      == {<<>>, both} \cup pads \cup mins
    IN  { [sheets |-> <<Sheet(<<"G">>, "", "", d)>>, options |-> o, off |-> 2] :
            d \in datas, o \in opts }

\* Calls with one sheet of fixed tasks (the README's first task dates, a
\* task supplied end first, a task over the epoch, one-day tasks): titles,
\* border style, colours and the zone.
StyleInputs ==
    LET datas  == { <<Task("T1", Day(19752), Day(19754), "FFFFF00"),
                      Task("T2", Day(19755), Day(19753), "")>>,
                    <<Task("T1", Day(0 - 1), Day(1), "")>>,
                    <<Task("T1", Day(19732), Day(19732), "")>> }
        titles == {"", "Title"}
        subs   == {"", "Sub"}
        styles == { <<>> } \cup { [borderStyle |-> b] : b \in {"thin", "double"} }
        colors == { <<>>, [defaultColor |-> "00FF00"] }
    IN  { [sheets |-> <<Sheet(<<"G">>, t, st, d)>>, options |-> b @@ c, off |-> z] :
            d \in datas, t \in titles, st \in subs, b \in styles, c \in colors,
            z \in UtcOffsets }

\* Calls that end early or lay nothing out: no sheets, a sheet without
\* tasks, a sheet whose data holds null after a task supplied end first.
EdgeInputs ==
    { [sheets |-> ss, options |-> <<>>, off |-> 2] :
        ss \in { <<>>,
                 <<Sheet(<<"G">>, "", "", <<>>)>>,
                 <<Sheet(<<"G">>, "", "", <<Task("T1", Day(19727), Day(19723), ""), NullTask>>)>> } }

(***************************************************************************)
(* One call of ganttToExcel                                                 *)
(***************************************************************************)
VARIABLES
    given,            \* the sheets as the caller passed them (never changed)
    inSheets,         \* the caller's sheets, which the callback writes to
    options,          \* the options argument
    utcOffset,        \* the local zone's offset from UTC, in hours
    pc,               \* where the call is: start, forEach, writeBuffer, returned
    idx,              \* the sheet forEach calls the callback on next (1-based)
    sheetState,       \* per sheet: pending, skipped, done, or rejected
    workbook,         \* the worksheets added so far, in order
    writeBufferCalls, \* how many times workbook.xlsx.writeBuffer() was called
    result            \* what the returned promise resolved to

vars == <<given, inSheets, options, utcOffset, pc, idx, sheetState, workbook,
          writeBufferCalls, result>>

NoResult == [returnCode |-> 0 - 1, hasBuffer |-> FALSE, sheets |-> <<>>,
             errorMessage |-> ""]

\* The state when ganttToExcel is entered with input in.
Entered(in) ==
    /\ given = in.sheets
    /\ inSheets = in.sheets
    /\ options = in.options
    /\ utcOffset = in.off
    /\ pc = "start"
    /\ idx = 1
    /\ sheetState = [i \in 1..Len(in.sheets) |-> "pending"]
    /\ workbook = <<>>
    /\ writeBufferCalls = 0
    /\ result = NoResult

\* Calls with several sheets.
Init == \E in \in NamingInputs \cup StyleInputs : Entered(in)

\* Calls with one sheet, whose dates and options vary.
InitLayout == \E in \in LayoutInputs \cup StyleInputs \cup EdgeInputs : Entered(in)

\* if (!inSheets || inSheets.length === 0) return { returnCode: 1, ... }
ReturnNoData ==
    /\ pc = "start"
    /\ Len(inSheets) = 0
    /\ result' = [returnCode |-> 1, hasBuffer |-> FALSE, sheets |-> <<>>,
                  errorMessage |-> "No data provided."]
    /\ pc' = "returned"
    /\ UNCHANGED <<given, inSheets, options, utcOffset, idx, sheetState, workbook,
                   writeBufferCalls>>

\* new ExcelJS.Workbook() and its metadata; forEach starts.
CreateWorkbook ==
    /\ pc = "start"
    /\ Len(inSheets) # 0
    /\ pc' = "forEach"
    /\ UNCHANGED <<given, inSheets, options, utcOffset, idx, sheetState, workbook,
                   writeBufferCalls, result>>

\* The callback on a sheet without data: it returns at once.
SkipEmptySheet ==
    /\ pc = "forEach"
    /\ idx <= Len(inSheets)
    /\ Len(inSheets[idx].data) = 0
    /\ sheetState' = [sheetState EXCEPT ![idx] = "skipped"]
    /\ idx' = idx + 1
    /\ UNCHANGED <<given, inSheets, options, utcOffset, pc, workbook,
                   writeBufferCalls, result>>

\* The callback on a sheet whose data holds null: the async callback's
\* promise is rejected, nobody holds that promise, and forEach goes on.
LayoutSheetThrows ==
    /\ pc = "forEach"
    /\ idx <= Len(inSheets)
    /\ Len(inSheets[idx].data) # 0
    /\ Throws(inSheets[idx].data)
    /\ inSheets' = [inSheets EXCEPT
                      ![idx].data = DataAfterReduce(inSheets[idx].data, utcOffset)]
    /\ sheetState' = [sheetState EXCEPT ![idx] = "rejected"]
    /\ idx' = idx + 1
    /\ UNCHANGED <<given, options, utcOffset, pc, workbook, writeBufferCalls, result>>

\* The callback on a sheet with tasks: it has no await, so it runs to its
\* end within the forEach call.
LayoutSheet ==
    /\ pc = "forEach"
    /\ idx <= Len(inSheets)
    /\ Len(inSheets[idx].data) # 0
    /\ ~Throws(inSheets[idx].data)
    /\ workbook' = Append(workbook,
                      NewWorksheet(workbook, inSheets[idx], idx, options, utcOffset))
    /\ inSheets' = [inSheets EXCEPT
                      ![idx].data = DataAfterReduce(inSheets[idx].data, utcOffset)]
    /\ sheetState' = [sheetState EXCEPT ![idx] = "done"]
    /\ idx' = idx + 1
    /\ UNCHANGED <<given, options, utcOffset, pc, writeBufferCalls, result>>

\* Whether inSheets.forEach(...) has returned: it returns once the callback
\* was called, and ran to its end, on every sheet.
ForEachReturnedAtOnce(i, n) == TRUE

ForEachReturned(i, n) == i > n

\* workbook.xlsx.writeBuffer() is called and the function suspends on await.
StartWriteBuffer ==
    /\ pc = "forEach"
    /\ ForEachReturned(idx, Len(inSheets))
    /\ pc' = "writeBuffer"
    /\ writeBufferCalls' = writeBufferCalls + 1
    /\ UNCHANGED <<given, inSheets, options, utcOffset, idx, sheetState, workbook,
                   result>>

\* The awaited promise is fulfilled: return { buffer, returnCode: 0 }.
WriteBufferResolves ==
    /\ pc = "writeBuffer"
    /\ result' = [returnCode |-> 0, hasBuffer |-> TRUE,
                  sheets |-> [k \in 1..Len(workbook) |-> workbook[k].name],
                  errorMessage |-> ""]
    /\ pc' = "returned"
    /\ UNCHANGED <<given, inSheets, options, utcOffset, idx, sheetState, workbook,
                   writeBufferCalls>>

\* The awaited promise is rejected: the catch block returns returnCode 2.
WriteBufferRejects ==
    /\ pc = "writeBuffer"
    /\ result' = [returnCode |-> 2, hasBuffer |-> FALSE, sheets |-> <<>>,
                  errorMessage |-> "error.message"]
    /\ pc' = "returned"
    /\ UNCHANGED <<given, inSheets, options, utcOffset, idx, sheetState, workbook,
                   writeBufferCalls>>

Next ==
    \/ ReturnNoData
    \/ CreateWorkbook
    \/ SkipEmptySheet
    \/ LayoutSheetThrows
    \/ LayoutSheet
    \/ StartWriteBuffer
    \/ WriteBufferResolves
    \/ WriteBufferRejects

Spec == Init /\ [][Next]_vars

LayoutSpec == InitLayout /\ [][Next]_vars

(***************************************************************************)
(* What the claims speak of                                                 *)
(***************************************************************************)
\* The callback promises that were rejected: forEach drops the promise the
\* async callback returns, so each of them is an unhandled rejection.
UnhandledRejections == {i \in 1..Len(sheetState) : sheetState[i] = "rejected"}

\* The tasks of worksheet ws as the caller supplied them, and as they stand
\* in the caller's array after the call wrote to it.
GivenData(ws) == given[ws.source].data

CurrentData(ws) == inSheets[ws.source].data

RowsOfKind(ws, kind) == SelectSeq(ws.rows, LAMBDA r : r.kind = kind)

\* The row of task i (1-based) and the banner row of a worksheet.
TaskRowOf(ws, i) == RowsOfKind(ws, "task")[i]

BannerRowOf(ws) == RowsOfKind(ws, "banner")[1]

\* The columns of a row that carry a fill.
FilledColumns(row) == {c \in 1..Len(row.cells) : row.cells[c].fill # ""}

\* The columns of the banner row that carry a month label.
BannerMarkers(ws) ==
    {c \in 1..Len(BannerRowOf(ws).cells) : BannerRowOf(ws).cells[c].value.t = "month"}

\* Whether instants t and u lie in the same local month.
SameMonth(t, u) ==
    /\ MonthOf(t, utcOffset) = MonthOf(u, utcOffset)
    /\ YearOf(t, utcOffset) = YearOf(u, utcOffset)

\* The Date of day column i (0-based) of a worksheet.
ColumnDate(ws, i) == AddDays(ws.limits.min, i)

\* The day columns (0-based) of the window that lie in the month of column c.
MonthColumns(ws, c) ==
    {i \in 0..(ws.noOfDays - 1) : SameMonth(ColumnDate(ws, i), ColumnDate(ws, c))}

\* Whether every task of the sheet was dated by date-only strings.
DateOnly(ws) ==
    \A i \in 1..Len(GivenData(ws)) :
        GivenData(ws)[i].start.hour = 0 /\ GivenData(ws)[i].end.hour = 0

\* minDaysForMonth as the caller means it: the default only when not supplied.
SuppliedMinDays ==
    IF Supplied(options, "minDaysForMonth") THEN options["minDaysForMonth"]
    ELSE DefaultMinDaysForMonth

Worksheets == {workbook[k] : k \in 1..Len(workbook)}

(***************************************************************************)
(* C1: a failure raised while a sheet is laid out, or while the workbook is *)
(* serialized, makes the call resolve to returnCode 2 with an error message *)
(* and no buffer; no failure escapes as an unhandled rejection, and the     *)
(* call never resolves with returnCode 0 after a failure.                   *)
(***************************************************************************)
C1_FailureGivesReturnCode2 ==
    /\ UnhandledRejections = {}
    /\ (pc = "returned" /\ \E i \in 1..Len(sheetState) : sheetState[i] = "rejected")
          => /\ result.returnCode = 2
             /\ result.errorMessage # ""
             /\ ~result.hasBuffer

(***************************************************************************)
(* C2: after normalization, padding and widening, the window of a sheet     *)
(* satisfies min <= task.start and task.end <= max for every task, also     *)
(* when the first task, the seed of the reduce, was supplied end first.     *)
(***************************************************************************)
C2_WindowInvariant ==
    \A ws \in Worksheets :
        \A i \in 1..Len(CurrentData(ws)) :
            /\ ws.limits.min <= MomentToDate(CurrentData(ws)[i].start, utcOffset)
            /\ MomentToDate(CurrentData(ws)[i].end, utcOffset) <= ws.limits.max
            /\ ws.limits.min <= MomentToDate(GivenData(ws)[i].start, utcOffset)
            /\ ws.limits.min <= MomentToDate(GivenData(ws)[i].end, utcOffset)
            /\ MomentToDate(GivenData(ws)[i].start, utcOffset) <= ws.limits.max
            /\ MomentToDate(GivenData(ws)[i].end, utcOffset) <= ws.limits.max

\* A sheet of two tasks was laid out whose first task was supplied end first
\* and whose second task starts before and ends after it.
C2_Witness ==
    \E ws \in Worksheets :
        LET g == GivenData(ws)
        IN  /\ Len(g) = 2
            /\ MomentToDate(g[1].start, utcOffset) > MomentToDate(g[1].end, utcOffset)
            /\ MomentToDate(g[2].start, utcOffset) < MomentToDate(g[1].start, utcOffset)
            /\ Supplied(options, "leftPadding") /\ options["leftPadding"] > 0

(***************************************************************************)
(* C3: a task supplied with start > end has its dates swapped and written   *)
(* back onto the task record; its rendered start and end cells satisfy      *)
(* start <= end, the window covers the swapped dates, and its bar runs from *)
(* startColumn to endColumn of the swapped dates, 0 <= startColumn <=       *)
(* endColumn.                                                               *)
(***************************************************************************)
C3_SwappedTaskRendered ==
    \A ws \in Worksheets :
        \A i \in 1..Len(GivenData(ws)) :
            LET s0  == MomentToDate(GivenData(ws)[i].start, utcOffset)
                e0  == MomentToDate(GivenData(ws)[i].end, utcOffset)
                now == CurrentData(ws)[i]
                row == TaskRowOf(ws, i)
                startColumn == DiffDays(e0, ws.limits.min)
                endColumn   == DiffDays(s0, ws.limits.min)
            IN  s0 > e0 =>
                  /\ MomentToDate(now.start, utcOffset) = e0
                  /\ MomentToDate(now.end, utcOffset) = s0
                  /\ row.cells[2].value = FormatYMD(e0, utcOffset)
                  /\ row.cells[3].value = FormatYMD(s0, utcOffset)
                  /\ YMDLeq(row.cells[2].value, row.cells[3].value)
                  /\ ws.limits.min <= e0 /\ s0 <= ws.limits.max
                  /\ 0 <= startColumn /\ startColumn <= endColumn
                  /\ FilledColumns(row) = {c + 4 : c \in startColumn..endColumn}

\* A sheet was laid out whose second task was supplied end first.
C3_Witness ==
    \E ws \in Worksheets :
        /\ Len(GivenData(ws)) = 2
        /\ MomentToDate(GivenData(ws)[2].start, utcOffset)
              > MomentToDate(GivenData(ws)[2].end, utcOffset)
        /\ CurrentData(ws)[2].start.kind = "iso"

(***************************************************************************)
(* C4: noOfDays = (max - min in days) + 1 >= 1, min and max resulting from  *)
(* the supplied leftPadding, rightPadding and minDaysForMonth (5 only when  *)
(* not supplied); with minDaysForMonth = 0 supplied nothing is widened and  *)
(* noOfDays = (latest end - earliest start) + leftPadding + rightPadding + 1*)
(***************************************************************************)
C4_NoOfDaysFromSuppliedOptions ==
    \A ws \in Worksheets :
        LET limits == Limits(GivenData(ws), utcOffset)
        IN  /\ ws.noOfDays >= 1
            /\ ws.noOfDays =
                 NoOfDays(AdjustLimits(limits, LeftPadding(options),
                                       RightPadding(options), SuppliedMinDays,
                                       utcOffset))
            /\ (Supplied(options, "minDaysForMonth") /\ options["minDaysForMonth"] = 0)
                 => ws.noOfDays = DiffDays(limits.max, limits.min)
                                     + LeftPadding(options) + RightPadding(options) + 1

C6_BannerPerMonth ==
    \A ws \in Worksheets :
        LET firsts == {i \in 0..(ws.noOfDays - 1) :
                          i = 0 \/ ~SameMonth(ColumnDate(ws, i), ColumnDate(ws, i - 1))}
        IN  /\ BannerMarkers(ws) = {i + 4 : i \in firsts}
            /\ 4 \in BannerMarkers(ws)
            /\ \A c \in BannerMarkers(ws) :
                   BannerRowOf(ws).cells[c].value
                      = FormatMMMYYYY(ColumnDate(ws, c - 4), utcOffset)

(***************************************************************************)
(* C7: exactly the day columns startColumn..endColumn of a task's row are   *)
(* filled and carry top and bottom borders of borderStyle; the leftmost     *)
(* filled cell also has a left border and the rightmost a right border, for *)
(* every bar length, so a bar of length 1 has all four sides.               *)
(***************************************************************************)
C7_BarClosed ==
    \A ws \in Worksheets :
        \A i \in 1..Len(CurrentData(ws)) :
            LET row         == TaskRowOf(ws, i)
                startColumn == StartDiff(CurrentData(ws)[i], ws.limits, utcOffset)
                endColumn   == EndDiff(CurrentData(ws)[i], ws.limits, utcOffset)
                style       == BorderStyle(options)
            IN  /\ FilledColumns(row) = {c + 4 : c \in startColumn..endColumn}
                /\ \A c \in FilledColumns(row) :
                      /\ row.cells[c].border.top = style
                      /\ row.cells[c].border.bottom = style
                /\ row.cells[startColumn + 4].border.left = style
                /\ row.cells[endColumn + 4].border.right = style

(***************************************************************************)
(* C8: each emitted sheet name is the sanitized name (at most 25            *)
(* characters) when that name is not yet used in the workbook, and          *)
(* otherwise the sanitized name suffixed with _N for the smallest N >= 1    *)
(* that gives an unused name; all emitted names differ.                     *)
(***************************************************************************)
C8_SmallestSuffix ==
    \A k \in 1..Len(workbook) :
        LET base   == SanitizeName(given[workbook[k].source].sheetName)
            used   == {workbook[j].name : j \in 1..(k - 1)}
            suffixed(n) == base \o <<"_">> \o Decimal(n)
            N      == CHOOSE n \in 1..k :
                         /\ suffixed(n) \notin used
                         /\ \A m \in 1..(n - 1) : suffixed(m) \in used
        IN  /\ Len(base) <= MaxSheetNameLen
            /\ workbook[k].name = IF base \notin used THEN base ELSE suffixed(N)
            /\ \A j \in 1..(k - 1) : workbook[j].name # workbook[k].name

(***************************************************************************)
(* C9: the rows of a sheet are, in order: the title row (if any), the       *)
(* subTitle row (if any), one blank separator row exactly when there is a   *)
(* title or a subTitle, the banner row, the header row and the task rows.   *)
(***************************************************************************)
C9_TitleBlockOrder ==
    \A ws \in Worksheets :
        LET sheet == given[ws.source]
            block == (IF sheet.title # "" THEN <<"title">> ELSE <<>>)
                     \o (IF sheet.subTitle # "" THEN <<"subTitle">> ELSE <<>>)
            sep   == IF block # <<>> THEN <<"blank">> ELSE <<>>
        IN  [r \in 1..Len(ws.rows) |-> ws.rows[r].kind]
              = block \o sep \o <<"banner", "header">>
                  \o [i \in 1..Len(sheet.data) |-> "task"]

(***************************************************************************)
(* C10: the sheets are laid out one at a time in input order into one       *)
(* workbook; when serialization starts the callback has ended on every      *)
(* sheet (laid out, skipped for want of tasks, or thrown); serialization is *)
(* started once per call; the result is returned only after it, and holds   *)
(* the workbook as the layout left it.                                      *)
(***************************************************************************)
C10_LayoutBeforeSerialize ==
    /\ \A i \in 1..Len(sheetState) :
          sheetState[i] # "pending" =>
              \A j \in 1..(i - 1) : sheetState[j] # "pending"
    /\ \A j, k \in 1..Len(workbook) :
          j < k => workbook[j].source < workbook[k].source
    /\ \A i \in 1..Len(sheetState) :
          /\ sheetState[i] = "done" <=> \E ws \in Worksheets : ws.source = i
          /\ sheetState[i] = "skipped" => Len(given[i].data) = 0
    /\ writeBufferCalls >= 1 =>
          \A i \in 1..Len(sheetState) : sheetState[i] # "pending"
    /\ writeBufferCalls <= 1
    /\ pc = "writeBuffer" => writeBufferCalls = 1
    /\ result.returnCode \in {0, 2} => (pc = "returned" /\ writeBufferCalls = 1)
    /\ result.returnCode = 0 =>
          result.sheets = [k \in 1..Len(workbook) |-> workbook[k].name]

\* A call of three sheets returned returnCode 0 with the first and the third
\* sheet laid out and the second skipped.
C10_Witness ==
    /\ pc = "returned"
    /\ result.returnCode = 0
    /\ Len(sheetState) = 3
    /\ sheetState = <<"done", "skipped", "done">>
    /\ Len(result.sheets) = 2

=============================================================================
